---- MODULE Spec2Model ----
(***************************************************************************)
(* The WebSocket relay of server/server.js (section 5 of the file): one    *)
(* WebSocket.Server `wss`, a 'connection' handler that attaches a          *)
(* 'message' handler (the broadcast) and a 'close' handler to every        *)
(* accepted socket `ws`.                                                    *)
(*                                                                         *)
(* server.js keeps no state of its own: the registry is wss.clients and    *)
(* a connection's state is ws.readyState, both maintained by the `ws`      *)
(* package.  The transport actions below follow that package's contract:   *)
(*   - an accepted socket is OPEN and in wss.clients before 'connection'   *)
(*     is emitted;                                                          *)
(*   - a close frame, a local close() or a socket error moves it to        *)
(*     CLOSING; it stays in wss.clients until its 'close' event;           *)
(*   - the 'close' event is emitted once, with readyState CLOSED, after    *)
(*     the server's own listener has deleted it from wss.clients;          *)
(*   - send() on an OPEN socket queues the frame; a write failure is       *)
(*     reported on the socket, never by an exception of send();            *)
(*   - a malformed frame makes the socket emit 'error'.                    *)
(* Every handler runs to completion on the event loop, so each handler is  *)
(* one atomic action.                                                      *)
(*                                                                         *)
(* The same process serves the REST API of section 6 of the file over the  *)
(* mongoose model User (collection loginCredentials); its requests are     *)
(* modelled further down, each with the one store operation it performs.   *)
(***************************************************************************)
EXTENDS Integers, Sequences, FiniteSets, TLC

\* Bounds of the model.
NConn == 3
MaxMsgs == 2
MaxUsers == 2
NAppConn == 2
MaxLogins == 2
MaxReqs == 4

\* Connection identities: one fresh handle per accepted transport socket,
\* numbered in the order the server accepts them.
Conn == 1..NConn

\* The categories of diagnostic records: 'Client connected' (line 64),
\* 'Received message => ...' (line 67), 'Client disconnected' (line 76), and
\* "error", which no console call of the relay writes.
Category == {"connect", "message", "disconnect", "error"}

\* ws.readyState values.
CONNECTING == 0
OPEN == 1
CLOSING == 2
CLOSED == 3

VARIABLES
    clients,     \* wss.clients: the set of sockets the server holds
    readyState,  \* readyState[ws]: CONNECTING before the handshake completes
    sent,        \* sent[client]: the frames handed to client.send, in order
    broken,      \* broken[ws]: the socket failed with frames of sent[ws] undelivered
    log,         \* log[cat]: the number of console.log records of category cat
    produced,    \* produced[ws]: the number of 'message' events of ws handled
    nmsg,        \* the number of 'message' events handled so far
    uncaught,    \* 0, or the socket whose event raised an uncaught exception
    nodeEnv,     \* process.env.NODE_ENV when server.js is loaded
    wsPort,      \* the port the WebSocket server was asked to listen on
    requireMain, \* require.main === module: server.js is executed directly
    listening,   \* the ports app.listen was called with when server.js was loaded
    users,       \* the documents of the User collection, in insertion order
    nextId,      \* the number of _id values the store has handed out
    res,         \* the response to the latest HTTP request
    auth,        \* auth[r]: the OAuth callback request r and how far it has come
    app,         \* the page's URL code parameter and the state of the App component
    shown,       \* the `users` state of the Crud component: the displayed list
    inflight     \* inflight[q]: the q-th HTTP request of the Crud component

\* The state of the relay.
relayVars == <<clients, readyState, sent, broken, log, produced, nmsg, uncaught>>

\* The state of the REST API, and the configuration read at load time.
apiVars == <<users, nextId, res>>
envVars == <<nodeEnv, wsPort, requireMain, listening>>

\* The OAuth callback requests.
authVars == <<auth>>

\* The browser client (public/app.js).
clientVars == <<app, shown, inflight>>

vars == <<relayVars, apiVars, envVars, authVars, clientVars>>

\* The process is running: no uncaught exception has ended it.
alive == uncaught = 0

\* console.log(...) of server.js: one more record of category cat.
ConsoleLog(cat) == [log EXCEPT ![cat] = @ + 1]

\* const wss = new WebSocket.Server({ port: wsPort }): no client yet.
InitRelay ==
    /\ clients = {}
    /\ readyState = [ws \in Conn |-> CONNECTING]
    /\ sent = [ws \in Conn |-> <<>>]
    /\ broken = [ws \in Conn |-> FALSE]
    /\ log = [cat \in Category |-> 0]
    /\ produced = [ws \in Conn |-> 0]
    /\ nmsg = 0
    /\ uncaught = 0

\* An absent value: an unset environment variable, a field a request body
\* does not carry.
Undefined == "<undefined>"

\* The values of process.env.NODE_ENV server.js is loaded with.
NodeEnv == {"test", "production", "TEST", Undefined}

\* Mutant: any set NODE_ENV selects the ephemeral port.
WsPort_AnySetEnv(env) == IF env # Undefined THEN 0 ELSE 8080

\* const wsPort = process.env.NODE_ENV === 'test' ? 0 : 8080;
WsPort(env) == IF env = "test" THEN 0 ELSE 8080

\* The configuration server.js reads when it is loaded.
InitEnv(env) ==
    /\ nodeEnv = env
    /\ wsPort = WsPort(env)

\* const PORT = 3000;
PORT == 3000

\* app.listen(PORT, ...): the ports the HTTP server is started on by a load
\* of server.js, executed directly (main) or loaded with require.  The call
\* is the last statement of the file and is under no condition.
HttpPorts(main) == {PORT}

\* How server.js was loaded, and the HTTP listeners the load started.
InitLoad(main) ==
    /\ requireMain = main
    /\ listening = HttpPorts(main)

\* res.status(status).json(...): message is the body's message, data the
\* documents the body carries (one document, or the list of GET).
Response(status, message, data) ==
    [status |-> status, message |-> message, data |-> data]

\* No request was answered yet.
NoResponse == Response(0, "", <<>>)

\* The User collection is empty (the tests start from an empty database).
InitApi ==
    /\ users = <<>>
    /\ nextId = 0
    /\ res = NoResponse

\* The OAuth callback requests of a run, in the order they arrive.
Login == 1..MaxLogins

\* A callback request before its handler runs: no promise pending, no step
\* of its chain done, no response sent.
NoCallback ==
    [provider |-> "", pending |-> "", doc |-> <<>>, steps |-> <<>>, response |-> NoResponse]

\* No callback request has arrived.
InitAuth == auth = <<>>

\* null: URLSearchParams.get of a parameter the URL does not have, and the
\* initial loginCode.
Null == "<null>"

\* The App component before its mount effect, on a page whose URL gives
\* code for urlParams.get('code').
AppState(code) ==
    [code |-> code, isLoggedIn |-> FALSE, loginCode |-> Null, mounted |-> FALSE]

\* The requests of the Crud component, in the order it issues them.
Req == 1..MaxReqs

\* A request before it is issued.
NoRequest ==
    [op |-> "", id |-> 0, name |-> "", email |-> "", closure |-> <<>>,
     state |-> "", response |-> NoResponse]

\* The page is loaded with code as its code parameter: App is rendered, no
\* Crud component exists.
InitClient(code) ==
    /\ app = AppState(code)
    /\ shown = <<>>
    /\ inflight = <<>>

\* The state after server.js was loaded, in normal operation.
Init ==
    /\ InitRelay /\ InitApi /\ InitEnv("production") /\ InitLoad(TRUE) /\ InitAuth
    /\ InitClient(Null)

\* Mutant: an accepted socket is not added to wss.clients.
ClientsAfterAccept_NoAdd(ws) == clients

\* Mutant: accepting ws puts back every socket that was ever accepted.
ClientsAfterAccept_Readd(ws) == {c \in Conn : readyState[c] # CONNECTING} \cup {ws}

\* wss.clients after the server accepted ws.
ClientsAfterAccept(ws) == clients \cup {ws}

\* wss.on('connection', ws => { console.log('Client connected'); ... })
Connection(ws) ==
    /\ alive
    /\ readyState[ws] = CONNECTING
    /\ \A w \in 1..(ws - 1) : readyState[w] # CONNECTING
    /\ readyState' = [readyState EXCEPT ![ws] = OPEN]
    /\ clients' = ClientsAfterAccept(ws)
    /\ log' = ConsoleLog("connect")
    /\ UNCHANGED <<sent, broken, produced, nmsg, uncaught>>
    /\ UNCHANGED <<apiVars, envVars, authVars, clientVars>>

\* Inbound payloads are opaque to the relay.  The k-th payload the relay
\* receives is k, so that every payload is unique and, the transport keeping
\* each connection's order, a sender's payloads are numbered in the order
\* the sender produced them.
NextPayload == nmsg + 1

\* The frame the relay hands to client.send for a message of ws: the payload
\* itself, with the connection it came from.
Envelope(ws, message) == [from |-> ws, data |-> message]

\* Mutant: the test `client !== ws` is left out.
IsTarget_NoSenderTest(client, ws) == readyState[client] = OPEN

\* Mutant: the test `client.readyState === WebSocket.OPEN` is left out.
IsTarget_NoStateTest(client, ws) == client # ws

\* Mutant: the test only leaves out the sockets that are CLOSED.
IsTarget_NotClosed(client, ws) == client # ws /\ readyState[client] # CLOSED

\* if (client !== ws && client.readyState === WebSocket.OPEN)
IsTarget(client, ws) == client # ws /\ readyState[client] = OPEN

\* Mutant: the frame is queued ahead of the earlier ones.
Send_Prepend(client, frame) == <<frame>> \o sent[client]

\* client.send(message): the frame is queued behind the earlier ones.
Send(client, frame) == Append(sent[client], frame)

\* Mutant: the loop stops after the first target it sends to.
Broadcast_FirstTargetOnly(ws, message) ==
    [client \in Conn |->
        IF /\ client \in clients
           /\ IsTarget(client, ws)
           /\ \A c \in clients : IsTarget(c, ws) => client <= c
        THEN Send(client, Envelope(ws, message))
        ELSE sent[client]]

\* Mutant: the sender's connection is sent a copy as well as the targets.
Broadcast_Echo(ws, message) ==
    [client \in Conn |->
        IF client \in clients /\ (client = ws \/ IsTarget(client, ws))
        THEN Send(client, Envelope(ws, message))
        ELSE sent[client]]

\* wss.clients.forEach(client => { if (...) client.send(message); })
Broadcast(ws, message) ==
    [client \in Conn |->
        IF client \in clients /\ IsTarget(client, ws)
        THEN Send(client, Envelope(ws, message))
        ELSE sent[client]]

\* ws.on('message', message => { console.log(...); wss.clients.forEach(...) })
\* The socket emits 'message' while it is OPEN.
OnMessage(ws, message) ==
    /\ alive
    /\ readyState[ws] = OPEN
    /\ log' = ConsoleLog("message")
    /\ sent' = Broadcast(ws, message)
    /\ produced' = [produced EXCEPT ![ws] = @ + 1]
    /\ nmsg' = nmsg + 1
    /\ UNCHANGED <<clients, readyState, broken, uncaught>>
    /\ UNCHANGED <<apiVars, envVars, authVars, clientVars>>

\* A payload arrives from ws (at most MaxMsgs payloads in a run).
Message(ws) ==
    /\ nmsg < MaxMsgs
    /\ OnMessage(ws, NextPayload)

\* A close signal on ws: the peer's close frame or a local close().  Only the
\* first one on an OPEN socket has an effect; server.js has no handler for it.
CloseSignal(ws) ==
    /\ alive
    /\ readyState[ws] \in {OPEN, CLOSING, CLOSED}
    /\ readyState' = [readyState EXCEPT ![ws] = IF @ = OPEN THEN CLOSING ELSE @]
    /\ UNCHANGED <<clients, sent, broken, log, produced, nmsg, uncaught>>
    /\ UNCHANGED <<apiVars, envVars, authVars, clientVars>>

\* The socket of ws fails (reset, write error) while frames handed to
\* ws.send are still queued: they are lost, the socket goes to CLOSING and
\* its 'close' event follows.  server.js passes no callback to send and
\* has no handler that sees the failure.
SocketError(ws) ==
    /\ alive
    /\ readyState[ws] = OPEN
    /\ Len(sent[ws]) > 0
    /\ broken' = [broken EXCEPT ![ws] = TRUE]
    /\ readyState' = [readyState EXCEPT ![ws] = CLOSING]
    /\ UNCHANGED <<clients, sent, log, produced, nmsg, uncaught>>
    /\ UNCHANGED <<apiVars, envVars, authVars, clientVars>>

\* Mutant: the 'close' event leaves ws in wss.clients.
ClientsAfterClose_NoDelete(ws) == clients

\* wss.clients after the 'close' event of ws.
ClientsAfterClose(ws) == clients \ {ws}

\* The 'close' event of ws: the server's listener deletes ws from
\* wss.clients, then ws.on('close', () => console.log('Client disconnected')).
CloseEvent(ws) ==
    /\ alive
    /\ readyState[ws] = CLOSING
    /\ readyState' = [readyState EXCEPT ![ws] = CLOSED]
    /\ clients' = ClientsAfterClose(ws)
    /\ log' = ConsoleLog("disconnect")
    /\ UNCHANGED <<sent, broken, produced, nmsg, uncaught>>
    /\ UNCHANGED <<apiVars, envVars, authVars, clientVars>>

\* The listeners server.js registers on an accepted socket.
Listeners == {"message", "close"}

\* A malformed frame arrives on ws: the socket starts closing and emits
\* 'error'.  An 'error' event without a listener is thrown by emit, and
\* nothing catches it: the process ends.
ProtocolError(ws) ==
    /\ alive
    /\ readyState[ws] = OPEN
    /\ readyState' = [readyState EXCEPT ![ws] = CLOSING]
    /\ uncaught' = IF "error" \in Listeners THEN 0 ELSE ws
    /\ UNCHANGED <<clients, sent, broken, log, produced, nmsg>>
    /\ UNCHANGED <<apiVars, envVars, authVars, clientVars>>

Next ==
    \/ \E ws \in Conn : Connection(ws)
    \/ \E ws \in Conn : Message(ws)
    \/ \E ws \in Conn : CloseSignal(ws)
    \/ \E ws \in Conn : SocketError(ws)
    \/ \E ws \in Conn : CloseEvent(ws)
    \/ \E ws \in Conn : ProtocolError(ws)

Spec == Init /\ [][Next]_vars

(***************************************************************************)
(* The burst scenario: every connection is accepted, then each sends one   *)
(* payload, in any order; close signals and close events may interleave.   *)
(***************************************************************************)

\* A payload arrives from ws, which has sent none yet, after every
\* connection was accepted.
BurstMessage(ws) ==
    /\ log["connect"] = NConn
    /\ produced[ws] = 0
    /\ OnMessage(ws, NextPayload)

NextBurst ==
    \/ \E ws \in Conn : Connection(ws)
    \/ \E ws \in Conn : BurstMessage(ws)
    \/ \E ws \in Conn : CloseSignal(ws)
    \/ \E ws \in Conn : CloseEvent(ws)

SpecBurst == Init /\ [][NextBurst]_vars

(***************************************************************************)
(* The REST API over the User collection (server.js, section 6).  Each     *)
(* request performs one store operation, which the store applies           *)
(* atomically, and answers from its result.  The store is available.       *)
(***************************************************************************)

\* The name and email values a request body may carry.
Names == {"Alice", "Bob", "", Undefined}
Emails == {"alice@example.com", Undefined}

\* The :id values a request may carry: the _id values the store can hand
\* out, 0 (a well-formed ObjectId the store never hands out) and -1 (a
\* string that is no ObjectId, 'invalid-id').
Ids == (0..MaxUsers) \cup {-1}

\* Mutant: every :id casts to an ObjectId.
WellFormed_Any(id) == TRUE

\* Whether :id casts to an ObjectId (findById... rejects with a CastError
\* otherwise).
WellFormed(id) == id >= 0

\* Mutant: only an absent value fails `required`.
Required_AbsentOnly(v) == v # Undefined

\* { type: String, required: true }: an absent or empty string fails.
Required(v) == v # Undefined /\ v # ""

\* user.save() validates the document against the schema.
Valid(name, email) == Required(name) /\ Required(email)

\* new User({ name, email }): the document, with a fresh _id.
NewUser(name, email) == [_id |-> nextId + 1, name |-> name, email |-> email]

\* The positions of the documents whose _id is id (at most one).
Lookup(id) == {i \in 1..Len(users) : users[i]._id = id}

\* The collection without the documents at the positions in S.
RECURSIVE Without(_, _)
Without(docs, S) ==
    IF docs = <<>> THEN <<>>
    ELSE LET n == Len(docs)
             rest == Without(SubSeq(docs, 1, n - 1), S)
         IN IF n \in S THEN rest ELSE Append(rest, docs[n])

\* Mutant: the store deletes its oldest document, whatever the id.
StoreAfterDelete_Oldest(docs, id) == Without(docs, {1})

\* findByIdAndDelete(id) on the documents docs.
StoreAfterDelete(docs, id) ==
    Without(docs, {i \in 1..Len(docs) : docs[i]._id = id})

\* user.save() of a valid document on the documents docs.
StoreAfterSave(docs, doc) == Append(docs, doc)

\* { name, email } applied to a document: an absent field is left as it is
\* (findByIdAndUpdate runs no validation).
Updated(doc, name, email) ==
    [doc EXCEPT !.name = IF name = Undefined THEN @ ELSE name,
                !.email = IF email = Undefined THEN @ ELSE email]

\* app.get('/api/users')
GetUsers ==
    /\ alive
    /\ res' = Response(200, "", users)
    /\ UNCHANGED <<users, nextId>>
    /\ UNCHANGED <<relayVars, envVars, authVars, clientVars>>

\* app.post('/api/users')
PostUser(name, email) ==
    /\ alive
    /\ IF Valid(name, email)
       THEN /\ users' = StoreAfterSave(users, NewUser(name, email))
            /\ nextId' = nextId + 1
            /\ res' = Response(201, "", <<NewUser(name, email)>>)
       ELSE /\ res' = Response(500, "Error creating user", <<>>)
            /\ UNCHANGED <<users, nextId>>
    /\ UNCHANGED <<relayVars, envVars, authVars, clientVars>>

\* A POST arrives (the store hands out at most MaxUsers _id values in a run).
Post(name, email) ==
    /\ Valid(name, email) => nextId < MaxUsers
    /\ PostUser(name, email)

\* app.put('/api/users/:id')
PutUser(id, name, email) ==
    /\ alive
    /\ IF ~WellFormed(id)
       THEN /\ res' = Response(500, "Error updating user", <<>>)
            /\ UNCHANGED users
       ELSE IF Lookup(id) = {}
       THEN /\ res' = Response(404, "User not found", <<>>)
            /\ UNCHANGED users
       ELSE /\ users' = [i \in 1..Len(users) |->
                            IF i \in Lookup(id)
                            THEN Updated(users[i], name, email)
                            ELSE users[i]]
            /\ res' = Response(200, "", <<Updated(users[CHOOSE i \in Lookup(id) : TRUE], name, email)>>)
    /\ UNCHANGED nextId
    /\ UNCHANGED <<relayVars, envVars, authVars, clientVars>>

\* Mutant: a DELETE also sends a notice to every open client of the relay.
DeleteUser_Notify(id) ==
    /\ alive
    /\ res' = Response(IF WellFormed(id) THEN 200 ELSE 500, "", <<>>)
    /\ users' = StoreAfterDelete(users, id)
    /\ sent' = [client \in Conn |->
                   IF client \in clients /\ readyState[client] = OPEN
                   THEN Send(client, [from |-> 0, data |-> id])
                   ELSE sent[client]]
    /\ UNCHANGED <<nextId, clients, readyState, broken, log, produced, nmsg, uncaught>>
    /\ UNCHANGED <<envVars, authVars, clientVars>>

\* app.delete('/api/users/:id')
DeleteUser(id) ==
    /\ alive
    /\ IF ~WellFormed(id)
       THEN /\ res' = Response(500, "Error deleting user", <<>>)
            /\ UNCHANGED users
       ELSE IF Lookup(id) = {}
       THEN /\ res' = Response(404, "User not found", <<>>)
            /\ UNCHANGED users
       ELSE /\ users' = StoreAfterDelete(users, id)
            /\ res' = Response(200, "User deleted successfully", <<>>)
    /\ UNCHANGED nextId
    /\ UNCHANGED <<relayVars, envVars, authVars, clientVars>>

NextApi ==
    \/ GetUsers
    \/ \E name \in Names, email \in Emails : Post(name, email)
    \/ \E id \in Ids, name \in Names, email \in Emails : PutUser(id, name, email)
    \/ \E id \in Ids : DeleteUser(id)

\* server.js loaded in any way with any NODE_ENV, then serving API requests.
InitAnyEnv ==
    /\ InitRelay
    /\ InitApi
    /\ \E env \in NodeEnv : InitEnv(env)
    /\ \E main \in BOOLEAN : InitLoad(main)
    /\ InitAuth
    /\ InitClient(Null)

SpecApi == InitAnyEnv /\ [][NextApi]_vars

(***************************************************************************)
(* The relay and the API in one process: the events of a few clients of    *)
(* the relay, each sending one payload, interleaved in any order with API  *)
(* requests.                                                               *)
(***************************************************************************)

\* The clients of the relay in these runs.
AppConn == 1..NAppConn

\* The name and email values of the API requests in these runs.
AppNames == {"Alice", Undefined}
AppEmails == {"alice@example.com"}

\* The first payload of ws arrives.
FirstMessage(ws) ==
    /\ produced[ws] = 0
    /\ OnMessage(ws, NextPayload)

NextApp ==
    \/ \E ws \in AppConn : Connection(ws)
    \/ \E ws \in AppConn : FirstMessage(ws)
    \/ \E ws \in AppConn : CloseSignal(ws)
    \/ \E ws \in AppConn : CloseEvent(ws)
    \/ GetUsers
    \/ \E name \in AppNames, email \in AppEmails : Post(name, email)
    \/ \E id \in Ids, name \in AppNames, email \in AppEmails : PutUser(id, name, email)
    \/ \E id \in Ids : DeleteUser(id)

SpecApp == Init /\ [][NextApp]_vars

(***************************************************************************)
(* Properties of the relay.                                                *)
(***************************************************************************)

\* The frames handed to client.send so far.
Frames(client) == {sent[client][i] : i \in 1..Len(sent[client])}

\* The step is the 'message' handler of ws.
MessageStep(ws) == produced'[ws] = produced[ws] + 1

\* C1 (P1, exclusion): no frame handed to a connection's send carries a
\* payload that the relay received from that same connection.
C1_Exclusion ==
    \A ws \in Conn : \A i \in 1..Len(sent[ws]) : sent[ws][i].from # ws

\* A connection's payload was relayed to another connection.
C1_Witness ==
    \E ws \in Conn : \E client \in Conn \ {ws} :
        /\ produced[ws] > 0
        /\ \E f \in Frames(client) : f.from = ws

\* C2 (P2, fan-out completeness): when the relay handles a payload of ws,
\* every other connection whose state is OPEN is sent exactly that payload,
\* once, behind what it was sent before; a connection that is not OPEN is sent
\* nothing; and the handler raises no error: the process keeps running and no
\* connection's state or registration changes.
C2_FanOut ==
    [][\A ws \in Conn : MessageStep(ws) =>
          /\ \A client \in Conn \ {ws} :
                IF readyState[client] = OPEN
                THEN sent'[client] =
                         Append(sent[client], [from |-> ws, data |-> nmsg + 1])
                ELSE sent'[client] = sent[client]
          /\ uncaught' = 0
          /\ readyState' = readyState
          /\ clients' = clients]_vars

\* ws sent two payloads to two other connections; the second one reached
\* only one of them, the other having left the OPEN state in between.
C2_Witness ==
    \E ws \in Conn : \E b \in Conn \ {ws} : \E c \in Conn \ {ws, b} :
        /\ produced[ws] = 2
        /\ Frames(b) = {[from |-> ws, data |-> 1], [from |-> ws, data |-> 2]}
        /\ Frames(c) = {[from |-> ws, data |-> 1]}
        /\ readyState[c] # OPEN

\* C3 (P5, isolation of failure), as claimed: when a send to one recipient
\* fails, the failure is logged.
C3_Claim ==
    \A client \in Conn : broken[client] => log["error"] > 0

C5_Claim ==
    \A ws \in Conn : readyState[ws] \in {CLOSING, CLOSED} =>
        /\ uncaught # ws
        /\ ws \in clients <=> readyState[ws] = CLOSING

\* C6 (registry invariant), as claimed: a connection is in the registry if
\* and only if its state is OPEN.
C6_Claim ==
    \A ws \in Conn : ws \in clients <=> readyState[ws] = OPEN

\* C6, amended: a connection is in the registry if and only if its state is
\* OPEN or CLOSING; so every OPEN connection is registered and no CONNECTING
\* or CLOSED connection is.
C6_RegistryOpenOrClosing ==
    \A ws \in Conn : ws \in clients <=> readyState[ws] \in {OPEN, CLOSING}

\* A connection that is closing is still in the registry, next to an OPEN one.
C6_Witness ==
    \E ws \in clients, c \in clients :
        readyState[ws] = CLOSING /\ readyState[c] = OPEN

\* A failure confined to the connection ws: its socket failed, or an event
\* of ws raised an exception.
Failed(ws) == broken[ws] \/ uncaught = ws

\* C7, as claimed: after a failure of one connection the relay still accepts
\* the next connection and still relays the payloads of every OPEN connection.
C7_Claim ==
    \A ws \in Conn : Failed(ws) =>
        /\ \A c \in Conn : readyState[c] = OPEN => ENABLED OnMessage(c, NextPayload)
        /\ \A c \in Conn :
              (readyState[c] = CONNECTING /\ \A w \in 1..(c - 1) : readyState[w] # CONNECTING)
                  => ENABLED Connection(c)

\* C8: a broadcast visits every registered connection other than the sender;
\* one that is OPEN is sent the payload, one that is closing (CLOSING, still
\* registered) is skipped and only that delivery is dropped; no exception
\* ends the handler.
C8_CloseDuringBroadcast ==
    [][\A ws \in Conn : MessageStep(ws) =>
          /\ \A client \in clients \ {ws} :
                /\ readyState[client] = CLOSING => sent'[client] = sent[client]
                /\ readyState[client] = OPEN =>
                       /\ Len(sent'[client]) = Len(sent[client]) + 1
                       /\ sent'[client][Len(sent'[client])].data = nmsg + 1
          /\ alive']_vars

\* c was registered and closing when ws broadcast its second payload: c has
\* the first payload of ws and not the second, which b was sent.
C8_Witness ==
    \E ws \in Conn : \E b \in Conn \ {ws} : \E c \in clients \ {ws, b} :
        /\ readyState[c] = CLOSING
        /\ [from |-> ws, data |-> 1] \in Frames(c)
        /\ [from |-> ws, data |-> 2] \notin Frames(c)
        /\ [from |-> ws, data |-> 2] \in Frames(b)
        /\ alive

\* C9 (per-sender ordering): two frames of one sender are handed to a
\* recipient's send in the order in which the sender produced the payloads.
C9_SenderOrder ==
    \A client \in Conn : \A i \in 1..Len(sent[client]) : \A j \in 1..Len(sent[client]) :
        (i < j /\ sent[client][i].from = sent[client][j].from)
            => sent[client][i].data < sent[client][j].data

\* A recipient was sent two payloads of one sender.
C9_Witness ==
    \E client \in Conn : \E i \in 1..Len(sent[client]) : \E j \in 1..Len(sent[client]) :
        i < j /\ sent[client][i].from = sent[client][j].from

\* Every connection is OPEN and each has sent its one payload.
BurstDone ==
    /\ \A ws \in Conn : readyState[ws] = OPEN
    /\ \A ws \in Conn : produced[ws] = 1

\* C10: when each of the N connections, all open, has sent one payload and
\* none has closed, every connection has been sent exactly N-1 frames: one
\* from each other connection, none twice and none of its own.
C10_Burst ==
    BurstDone =>
        \A ws \in Conn :
            /\ Len(sent[ws]) = NConn - 1
            /\ {sent[ws][i].from : i \in 1..Len(sent[ws])} = Conn \ {ws}
            /\ Cardinality(Frames(ws)) = NConn - 1

\* The burst is complete, with at least two recipients for every payload.
C10_Witness ==
    /\ BurstDone
    /\ nmsg = NConn
    /\ NConn >= 3

\* The changes of readyState a socket can make.
Forward == {<<CONNECTING, OPEN>>, <<OPEN, CLOSING>>, <<CLOSING, CLOSED>>, <<OPEN, CLOSED>>}

\* C11 (forward-only lifecycle): the state of a connection changes only
\* from CONNECTING to OPEN, from OPEN to CLOSING or CLOSED and from CLOSING
\* to CLOSED; a CLOSED connection stays CLOSED and is not in the registry;
\* and a connection that was accepted and is no longer in the registry is
\* not in it after any step.
C11_ForwardOnly ==
    /\ [](\A ws \in Conn : readyState[ws] = CLOSED => ws \notin clients)
    /\ [][\A ws \in Conn :
            /\ readyState'[ws] # readyState[ws] =>
                   <<readyState[ws], readyState'[ws]>> \in Forward
            /\ readyState[ws] = CLOSED => readyState'[ws] = CLOSED
            /\ (readyState[ws] # CONNECTING /\ ws \notin clients) =>
                   ws \notin clients']_vars

\* One connection has run its whole life and left the registry, while a
\* connection accepted after it is closing and a third one is open.
C11_Witness ==
    \E a \in Conn : \E b \in Conn : \E c \in Conn :
        /\ a < b /\ b < c
        /\ readyState[a] = CLOSED /\ a \notin clients
        /\ readyState[b] = CLOSING
        /\ readyState[c] = OPEN
        /\ clients = {b, c}

\* C12, as claimed: an error signal on a connection is logged and handled:
\* the step leaves a record of category error, the process keeps running and
\* the connection stays registered until its own close event.
C12_Claim ==
    [][\A ws \in Conn : ProtocolError(ws) =>
          /\ log'["error"] = log["error"] + 1
          /\ alive'
          /\ ws \in clients']_vars

\* C14 (atomic registry view): the connections a broadcast sends to are the
\* OPEN members, other than the sender, of the registry as it is when the
\* handler starts; the broadcast changes neither the registry nor a state;
\* and at every moment a connection is either wholly in the registry
\* (accepted, its close event not yet run) or wholly out of it.
C14_AtomicView ==
    /\ [](\A c \in Conn :
            /\ c \in clients => readyState[c] \in {OPEN, CLOSING}
            /\ c \notin clients => readyState[c] \in {CONNECTING, CLOSED})
    /\ [][\A ws \in Conn : MessageStep(ws) =>
            /\ {c \in Conn : sent'[c] # sent[c]} =
                   {c \in clients \ {ws} : readyState[c] = OPEN}
            /\ clients' = clients
            /\ readyState' = readyState]_vars

\* ws broadcast while c, accepted before ws, was closing and still
\* registered, b was open and d was not accepted yet: only b was sent the
\* payload.
C14_Witness ==
    \E ws \in Conn : \E c \in clients \ {ws} : \E b \in clients \ {ws, c} :
        /\ c < ws
        /\ produced[ws] > 0
        /\ readyState[c] = CLOSING
        /\ sent[c] = <<>>
        /\ \E f \in Frames(b) : f.from = ws

\* C15, as claimed: the relay has emitted one record per lifecycle event, in
\* the event's category: one connect record per accepted connection, one
\* message record per inbound payload, one disconnect record per completed
\* close and one error record per 'error' event.
C15_Claim ==
    /\ log["connect"] = Cardinality({ws \in Conn : readyState[ws] # CONNECTING})
    /\ log["message"] = nmsg
    /\ log["disconnect"] = Cardinality({ws \in Conn : readyState[ws] = CLOSED})
    /\ log["error"] = Cardinality({ws \in Conn : uncaught = ws})

(***************************************************************************)
(* Properties of the API, and of the API next to the relay.                *)
(***************************************************************************)

C17_Port ==
    /\ wsPort = 0 <=> nodeEnv = "test"
    /\ nodeEnv # "test" => wsPort = 8080

\* server.js was loaded with NODE_ENV = 'test' and serves requests, the
\* relay being on an ephemeral port.
C17_Witness ==
    /\ nodeEnv = "test"
    /\ wsPort = 0
    /\ res.status = 201

\* The _id values of the documents docs.
IdsOf(docs) == {docs[i]._id : i \in 1..Len(docs)}

\* C18, as claimed: a POST whose body carries both name and email answers
\* 201 with the created record and stores it; a POST whose body lacks name
\* or email answers 500 'Error creating user' and leaves the store as it is.
C18_Claim ==
    [][\A name \in Names, email \in Emails : PostUser(name, email) =>
          IF name # Undefined /\ email # Undefined
          THEN /\ res'.status = 201
               /\ users' = Append(users, [_id |-> nextId + 1, name |-> name, email |-> email])
          ELSE /\ res'.status = 500
               /\ res'.message = "Error creating user"
               /\ users' = users]_vars

\* C18, amended: a POST whose name and email are both non-empty strings
\* answers 201 with the created record, which is stored behind the others;
\* a stored record stays stored, under its _id, until a DELETE of that _id
\* answers 200, and every GET answers 200 with all the stored records; a
\* POST whose name or email is absent or empty answers 500 'Error creating
\* user' and leaves the stored users as they are.
C18_Create ==
    [][/\ \A name \in Names, email \in Emails : PostUser(name, email) =>
             IF name \notin {Undefined, ""} /\ email \notin {Undefined, ""}
             THEN /\ res'.status = 201
                  /\ res'.data = <<[_id |-> nextId + 1, name |-> name, email |-> email]>>
                  /\ users' = Append(users, res'.data[1])
             ELSE /\ res'.status = 500
                  /\ res'.message = "Error creating user"
                  /\ users' = users
       /\ GetUsers => res'.status = 200 /\ res'.data = users /\ users' = users
       /\ \A id \in IdsOf(users) :
             \/ id \in IdsOf(users')
             \/ DeleteUser(id) /\ res'.status = 200]_vars

\* Two users were created and a GET returned both.
C18_Witness ==
    /\ Len(users) = 2
    /\ res = Response(200, "", users)

\* C19 (PUT and DELETE of an unknown or malformed id): a PUT or DELETE whose
\* id is a well-formed ObjectId that no stored user has answers 404 'User
\* not found', one whose id is no ObjectId answers 500, and in both cases
\* the stored users are as before.
C19_UnknownId ==
    [][\A id \in Ids :
          (DeleteUser(id) \/ \E name \in Names, email \in Emails : PutUser(id, name, email)) =>
              /\ (id >= 0 /\ id \notin IdsOf(users)) =>
                     /\ res'.status = 404
                     /\ res'.message = "User not found"
                     /\ users' = users
              /\ id < 0 =>
                     /\ res'.status = 500
                     /\ users' = users]_vars

\* A request for an id that no stored user has was answered 404 while users
\* were stored.
C19_Witness ==
    /\ Len(users) > 0
    /\ res = Response(404, "User not found", <<>>)

\* C20 (DELETE): a DELETE of the id of a stored user answers 200 'User
\* deleted successfully' and removes that user and no other; an _id that
\* was handed out and is not stored is not stored after any step, and a GET
\* returns exactly the stored users, so no later GET returns a deleted
\* user; and saving a user and then deleting it gives back the stored users
\* exactly as they were.
C20_Delete ==
    /\ [][/\ \A id \in IdsOf(users) : DeleteUser(id) =>
                /\ res'.status = 200
                /\ res'.message = "User deleted successfully"
                /\ IdsOf(users') = IdsOf(users) \ {id}
                /\ Len(users') = Len(users) - 1
          /\ \A id \in (1..nextId) \ IdsOf(users) : id \notin IdsOf(users')
          /\ GetUsers => res'.data = users]_vars
    /\ [](\A name \in Names, email \in Emails : Valid(name, email) =>
            StoreAfterDelete(StoreAfterSave(users, NewUser(name, email)), nextId + 1) = users)

\* Two users were created and the second was deleted: the store holds the
\* first alone, as before the second was created.
C20_Witness ==
    /\ nextId = 2
    /\ IdsOf(users) = {1}
    /\ res = Response(200, "User deleted successfully", <<>>)

(***************************************************************************)
(* Further properties of the relay.                                        *)
(***************************************************************************)

\* C24 (no send to a connection that is not OPEN): a step hands a frame to
\* the send of a connection only if the state of that connection is OPEN
\* when the step starts; a connection that is CONNECTING, CLOSING or CLOSED
\* keeps the frames it had, also while it is still in wss.clients.
C24_OnlyOpenIsSent ==
    [][\A client \in Conn :
          readyState[client] \in {CONNECTING, CLOSING, CLOSED} =>
              sent'[client] = sent[client]]_vars

\* Two payloads were relayed while c was in wss.clients and closing: c was
\* sent neither, b was sent both.
C24_Witness ==
    \E c \in clients : \E b \in clients \ {c} :
        /\ readyState[c] = CLOSING
        /\ sent[c] = <<>>
        /\ Len(sent[b]) = 2
        /\ \A i \in 1..2 : sent[b][i].from \notin {b, c}
        /\ c < b

(***************************************************************************)
(* Properties of the start of the HTTP server.                             *)
(***************************************************************************)

\* C25, as claimed: the HTTP server listens on port 3000 only if server.js
\* was executed directly; a load with require starts no listener on it.
C25_Claim ==
    PORT \in listening => requireMain

(***************************************************************************)
(* The OAuth callbacks (server.js, section 7).  A callback is a promise    *)
(* chain: axios.post (token exchange), axios.get (profile fetch),          *)
(* user.save(), res.redirect, with one catch at the end.  Each link runs   *)
(* when the promise before it settles, so each is one action; the          *)
(* provider's answers are inputs.                                          *)
(***************************************************************************)

Provider == {"linkedin", "google"}

\* The profiles a provider may return (r.data of the profile fetch), in the
\* provider's own field names; the second one of each carries no email.
LinkedinProfiles ==
    {[firstName |-> "John", lastName |-> "Doe", emailAddress |-> "john.doe@linkedin.com", id |-> "ln123"],
     [firstName |-> "John", lastName |-> "Doe", emailAddress |-> Undefined, id |-> "ln123"]}
GoogleProfiles ==
    {[name |-> "Jane Smith", email |-> "jane.smith@gmail.com", sub |-> "g123"],
     [name |-> "Jane Smith", email |-> Undefined, sub |-> "g123"]}
Profiles(provider) == IF provider = "linkedin" THEN LinkedinProfiles ELSE GoogleProfiles

\* new User({ name: `${p.firstName} ${p.lastName}`, email: p.emailAddress,
\*            linkedinId: p.id })
LinkedinUser(p) ==
    [name |-> p.firstName \o " " \o p.lastName, email |-> p.emailAddress, linkedinId |-> p.id]

\* new User({ name: p.name, email: p.email, googleId: p.sub })
GoogleUser(p) ==
    [name |-> p.name, email |-> p.email, googleId |-> p.sub]

OAuthUser(provider, p) ==
    IF provider = "linkedin" THEN LinkedinUser(p) ELSE GoogleUser(p)

\* The document as the store saves it: with the _id handed out for it.
WithId(doc, id) ==
    [f \in DOMAIN doc \cup {"_id"} |-> IF f = "_id" THEN id ELSE doc[f]]

\* Mutant: the redirect is sent when the profile has arrived, before the save.
Chain_RedirectBeforeSave == <<"token", "profile", "redirect", "save">>

\* The links of the chain, in the order of the .then calls.
Chain == <<"token", "profile", "save", "redirect">>

\* The link that runs after link, when link's promise is fulfilled.
Then(link) ==
    IF \E i \in 1..(Len(Chain) - 1) : Chain[i] = link
    THEN Chain[1 + CHOOSE i \in 1..(Len(Chain) - 1) : Chain[i] = link]
    ELSE ""

\* res.status(500).json({ message: 'Error logging in with ...' })
LoginError(provider) ==
    Response(500,
             IF provider = "linkedin" THEN "Error logging in with LinkedIn"
                                      ELSE "Error logging in with Google",
             <<>>)

\* res.redirect('/?code=...'): 302, the location in the message field.
Redirect(provider) ==
    Response(302, IF provider = "linkedin" THEN "/?code=linkedin" ELSE "/?code=google", <<>>)

\* The link `link` of callback r is done and the next one is started.
Fulfilled(r, link) ==
    [auth[r] EXCEPT !.steps = Append(@, link), !.pending = Then(link)]

\* .catch(err => { console.error(err); res.status(500).json(...) })
Rejected(r) ==
    [auth[r] EXCEPT !.steps = Append(@, "error"), !.pending = "",
                    !.response = LoginError(auth[r].provider)]

\* app.get('/auth/<provider>/callback'): the request arrives and axios.post
\* is called.
Callback(r, provider) ==
    /\ alive
    /\ r = Len(auth) + 1
    /\ auth' = Append(auth, [NoCallback EXCEPT !.provider = provider,
                                               !.pending = Chain[1]])
    /\ UNCHANGED <<relayVars, apiVars, envVars, clientVars>>

\* The token exchange settles: with an access token (ok) or rejected.
TokenExchange(r, ok) ==
    /\ alive
    /\ r \in DOMAIN auth
    /\ auth[r].pending = "token"
    /\ auth' = [auth EXCEPT ![r] = IF ok THEN Fulfilled(r, "token") ELSE Rejected(r)]
    /\ UNCHANGED <<relayVars, apiVars, envVars, clientVars>>

\* The profile fetch is rejected.
ProfileFetchFails(r) ==
    /\ alive
    /\ r \in DOMAIN auth
    /\ auth[r].pending = "profile"
    /\ auth' = [auth EXCEPT ![r] = Rejected(r)]
    /\ UNCHANGED <<relayVars, apiVars, envVars, clientVars>>

\* The profile fetch is fulfilled with p: the document is built from it.
ProfileFetch(r, p) ==
    /\ alive
    /\ r \in DOMAIN auth
    /\ auth[r].pending = "profile"
    /\ auth' = [auth EXCEPT ![r] =
                   [Fulfilled(r, "profile") EXCEPT !.doc = <<OAuthUser(auth[r].provider, p)>>]]
    /\ UNCHANGED <<relayVars, apiVars, envVars, clientVars>>

\* user.save() settles: the document is stored if it is valid.
Save(r) ==
    /\ alive
    /\ r \in DOMAIN auth
    /\ auth[r].pending = "save"
    /\ Len(auth[r].doc) = 1
    /\ LET doc == auth[r].doc[1] IN
       IF Valid(doc.name, doc.email)
       THEN /\ users' = StoreAfterSave(users, WithId(doc, nextId + 1))
            /\ nextId' = nextId + 1
            /\ auth' = [auth EXCEPT ![r] = Fulfilled(r, "save")]
       ELSE /\ auth' = [auth EXCEPT ![r] = Rejected(r)]
            /\ UNCHANGED <<users, nextId>>
    /\ UNCHANGED res
    /\ UNCHANGED <<relayVars, envVars, clientVars>>

\* .then(() => res.redirect('/?code=<provider>'))
SendRedirect(r) ==
    /\ alive
    /\ r \in DOMAIN auth
    /\ auth[r].pending = "redirect"
    /\ auth' = [auth EXCEPT ![r] =
                   [Fulfilled(r, "redirect") EXCEPT !.response = Redirect(auth[r].provider)]]
    /\ UNCHANGED <<relayVars, apiVars, envVars, clientVars>>

NextAuth ==
    \/ \E r \in Login, provider \in Provider : Callback(r, provider)
    \/ \E r \in Login, ok \in BOOLEAN : TokenExchange(r, ok)
    \/ \E r \in Login : ProfileFetchFails(r)
    \/ \E r \in DOMAIN auth : \E p \in Profiles(auth[r].provider) : ProfileFetch(r, p)
    \/ \E r \in Login : Save(r)
    \/ \E r \in Login : SendRedirect(r)

SpecAuth == Init /\ [][NextAuth]_vars

(***************************************************************************)
(* Properties of the OAuth callbacks.                                      *)
(***************************************************************************)

\* s is the beginning of t.
IsPrefix(s, t) == Len(s) <= Len(t) /\ SubSeq(t, 1, Len(s)) = s

\* The callbacks whose document was saved.
Saved == {r \in DOMAIN auth : \E i \in 1..Len(auth[r].steps) : auth[r].steps[i] = "save"}

\* C21 (OAuth callback): the steps a callback has done are a beginning of
\* token exchange, profile fetch, save, redirect, in that order, or such a
\* beginning without save and redirect followed by the error answer; the
\* redirect, a 302 to /?code=<provider>, is sent exactly when all four are
\* done; a callback whose token exchange or profile fetch failed has
\* answered 500 with its provider's message, has sent no redirect and has
\* saved no record; and the store holds one record for each callback that
\* has saved and no other.
C21_CallbackOrder ==
    /\ \A r \in DOMAIN auth :
          LET s == auth[r].steps
              response == auth[r].response
              failed == s # <<>> /\ s[Len(s)] = "error"
          IN /\ \/ IsPrefix(s, <<"token", "profile", "save", "redirect">>)
                \/ failed /\ IsPrefix(SubSeq(s, 1, Len(s) - 1), <<"token", "profile">>)
             /\ response.status = 302 <=> s = <<"token", "profile", "save", "redirect">>
             /\ response.status = 302 => response.message = "/?code=" \o auth[r].provider
             /\ s \in {<<"error">>, <<"token", "error">>} =>
                    /\ response.status = 500
                    /\ auth[r].provider = "linkedin" =>
                           response.message = "Error logging in with LinkedIn"
                    /\ auth[r].provider = "google" =>
                           response.message = "Error logging in with Google"
                    /\ r \notin Saved
    /\ Len(users) = Cardinality(Saved)

\* A LinkedIn callback ran to its redirect and its record is the one stored
\* record, while a Google callback failed in its profile fetch and answered
\* 500.
C21_Witness ==
    \E r \in DOMAIN auth : \E q \in DOMAIN auth \ {r} :
        /\ auth[r].provider = "linkedin"
        /\ auth[r].steps = <<"token", "profile", "save", "redirect">>
        /\ auth[r].response = Response(302, "/?code=linkedin", <<>>)
        /\ Len(users) = 1
        /\ users[1].name = "John Doe"
        /\ users[1].linkedinId = "ln123"
        /\ auth[q].provider = "google"
        /\ auth[q].steps = <<"token", "error">>
        /\ auth[q].response.status = 500

(***************************************************************************)
(* The browser client (public/app.js): the App component, and the Crud     *)
(* component with its HTTP requests.  A handler of Crud is created by a    *)
(* render and sees the `users` of that render; the callback of its request *)
(* runs when the response arrives and calls setUsers with a list computed  *)
(* from those `users`.  The server answers the requests that were sent in  *)
(* any order, and the responses arrive in any order.                       *)
(***************************************************************************)

\* The values of urlParams.get('code'): null for a URL without the
\* parameter, '' for `?code=`.
Codes == {Null, "", "linkedin", "google", "github"}

\* Mutant: only null counts as no code.
Truthy_NotNull(code) == code # Null

\* if (urlParams.get('code')): null and the empty string are falsy.
Truthy(code) == code \notin {Null, ""}

\* React.useEffect(() => { ... }, []) of App.
AppMountEffect ==
    /\ ~app.mounted
    /\ app' = IF Truthy(app.code)
              THEN [app EXCEPT !.loginCode = app.code, !.isLoggedIn = TRUE, !.mounted = TRUE]
              ELSE [app EXCEPT !.mounted = TRUE]
    /\ UNCHANGED <<shown, inflight>>
    /\ UNCHANGED <<relayVars, apiVars, envVars, authVars>>

\* !isLoggedIn && React.createElement('div', { className: 'container' }, ...)
LoginButtonsRendered == ~app.isLoggedIn

\* isLoggedIn && loginCode === 'linkedin' && React.createElement(Crud, null),
\* isLoggedIn && loginCode === 'google' && React.createElement(Crud, null)
CrudRendered ==
    \/ app.isLoggedIn /\ app.loginCode = "linkedin"
    \/ app.isLoggedIn /\ app.loginCode = "google"

\* The Crud component is mounted: its mount effect has issued the GET.
CrudMounted == Len(inflight) > 0

\* The values of the input boxes of the create form, and the name typed
\* into the update form of an entry.
FormNames == {"Alice", ""}
FormEmail == "alice@example.com"
EditedName == "Bob"

\* The request q is sent: q is the next request of the component.
Issue(q, request) ==
    /\ q = Len(inflight) + 1
    /\ inflight' = Append(inflight, [request EXCEPT !.state = "sent"])

\* React.useEffect(() => { axios.get('/api/users')... }, []) of Crud.
CrudMountEffect ==
    /\ CrudRendered
    /\ Issue(1, [NoRequest EXCEPT !.op = "list"])
    /\ UNCHANGED <<app, shown>>
    /\ UNCHANGED <<relayVars, apiVars, envVars, authVars>>

\* createUser: axios.post('/api/users', { name, email }) with the values of
\* the input boxes.
CreateClick(q, name) ==
    /\ CrudMounted
    /\ Issue(q, [NoRequest EXCEPT !.op = "create", !.name = name, !.email = FormEmail,
                                  !.closure = shown])
    /\ UNCHANGED <<app, shown>>
    /\ UNCHANGED <<relayVars, apiVars, envVars, authVars>>

\* updateUser(id) of a displayed entry: axios.put with the values of the
\* entry's input boxes.
UpdateClick(q, i) ==
    /\ CrudMounted
    /\ i \in 1..Len(shown)
    /\ Issue(q, [NoRequest EXCEPT !.op = "update", !.id = shown[i]._id, !.name = EditedName,
                                  !.email = shown[i].email, !.closure = shown])
    /\ UNCHANGED <<app, shown>>
    /\ UNCHANGED <<relayVars, apiVars, envVars, authVars>>

\* deleteUser(id) of a displayed entry: axios.delete.
DeleteClick(q, i) ==
    /\ CrudMounted
    /\ i \in 1..Len(shown)
    /\ Issue(q, [NoRequest EXCEPT !.op = "delete", !.id = shown[i]._id, !.closure = shown])
    /\ UNCHANGED <<app, shown>>
    /\ UNCHANGED <<relayVars, apiVars, envVars, authVars>>

\* The server's answer to request: the routes of section 6 of server.js.
AnswerTo(request) ==
    CASE request.op = "list" -> Response(200, "", users)
      [] request.op = "create" ->
            IF Valid(request.name, request.email)
            THEN Response(201, "", <<NewUser(request.name, request.email)>>)
            ELSE Response(500, "Error creating user", <<>>)
      [] request.op = "update" ->
            IF Lookup(request.id) = {}
            THEN Response(404, "User not found", <<>>)
            ELSE Response(200, "", <<Updated(users[CHOOSE i \in Lookup(request.id) : TRUE],
                                             request.name, request.email)>>)
      [] request.op = "delete" ->
            IF Lookup(request.id) = {}
            THEN Response(404, "User not found", <<>>)
            ELSE Response(200, "User deleted successfully", <<>>)

\* The User collection after the server handled request.
StoreAfter(request) ==
    CASE request.op = "list" -> users
      [] request.op = "create" ->
            IF Valid(request.name, request.email)
            THEN StoreAfterSave(users, NewUser(request.name, request.email))
            ELSE users
      [] request.op = "update" ->
            [i \in 1..Len(users) |->
                IF i \in Lookup(request.id)
                THEN Updated(users[i], request.name, request.email)
                ELSE users[i]]
      [] request.op = "delete" -> StoreAfterDelete(users, request.id)

\* The server handles request q of the component and answers it.
ServerAnswers(q) ==
    /\ alive
    /\ q \in DOMAIN inflight
    /\ inflight[q].state = "sent"
    /\ res' = AnswerTo(inflight[q])
    /\ users' = StoreAfter(inflight[q])
    /\ nextId' = IF Len(users') > Len(users) THEN nextId + 1 ELSE nextId
    /\ inflight' = [inflight EXCEPT ![q].state = "answered", ![q].response = res']
    /\ UNCHANGED <<app, shown>>
    /\ UNCHANGED <<relayVars, envVars, authVars>>

\* users.filter(user => user._id !== id)
Filter(list, id) == SelectSeq(list, LAMBDA user : user._id # id)

\* users.map(user => user._id === id ? data : user)
Map(list, id, data) ==
    [i \in 1..Len(list) |-> IF list[i]._id = id THEN data ELSE list[i]]

\* The argument of setUsers in the .then callback of request; the .catch
\* callback (a status of 400 or more) only logs.
SetUsers(request) ==
    IF request.response.status >= 400 THEN shown
    ELSE CASE request.op = "list" -> request.response.data
           [] request.op = "create" -> Append(request.closure, request.response.data[1])
           [] request.op = "update" -> Map(request.closure, request.id, request.response.data[1])
           [] request.op = "delete" -> Filter(request.closure, request.id)

\* The response to request q arrives and its callback runs.
ResponseArrives(q) ==
    /\ q \in DOMAIN inflight
    /\ inflight[q].state = "answered"
    /\ shown' = SetUsers(inflight[q])
    /\ inflight' = [inflight EXCEPT ![q].state = "done"]
    /\ UNCHANGED app
    /\ UNCHANGED <<relayVars, apiVars, envVars, authVars>>

NextClient ==
    \/ AppMountEffect
    \/ CrudMountEffect
    \/ \E q \in Req, name \in FormNames : CreateClick(q, name)
    \/ \E q \in Req, i \in 1..MaxReqs : UpdateClick(q, i)
    \/ \E q \in Req, i \in 1..MaxReqs : DeleteClick(q, i)
    \/ \E q \in Req : ServerAnswers(q)
    \/ \E q \in Req : ResponseArrives(q)

\* The page is loaded with any code parameter.
InitAnyPage ==
    /\ InitRelay /\ InitApi /\ InitEnv("production") /\ InitLoad(TRUE) /\ InitAuth
    /\ \E code \in Codes : InitClient(code)

SpecClient == InitAnyPage /\ [][NextClient]_vars

(***************************************************************************)
(* Properties of the browser client.                                       *)
(***************************************************************************)

\* C22, as claimed: once the mount effect of App has run, the login buttons
\* are rendered exactly when the URL has no code parameter, Crud is rendered
\* exactly when the code is 'linkedin' or 'google', and for any other
\* non-empty code neither is rendered.
C22_Claim ==
    app.mounted =>
        /\ LoginButtonsRendered <=> app.code = Null
        /\ CrudRendered <=> app.code \in {"linkedin", "google"}
        /\ app.code \notin {Null, "", "linkedin", "google"} =>
               ~CrudRendered /\ ~LoginButtonsRendered

\* C22, amended: once the mount effect of App has run, the login buttons
\* are rendered exactly when the URL has no code parameter or an empty one,
\* Crud is rendered exactly when the code is 'linkedin' or 'google', and for
\* any other non-empty code neither is rendered; before the effect has run
\* the login buttons are rendered and Crud is not.
C22_Rendering ==
    /\ app.mounted =>
          /\ LoginButtonsRendered <=> app.code \in {Null, ""}
          /\ CrudRendered <=> app.code \in {"linkedin", "google"}
          /\ app.code \notin {Null, "", "linkedin", "google"} =>
                 ~CrudRendered /\ ~LoginButtonsRendered
    /\ ~app.mounted => LoginButtonsRendered /\ ~CrudRendered

\* The page was opened with ?code=google: the effect has run, Crud is
\* rendered and has fetched its list, and the login buttons are gone.
C22_Witness ==
    /\ app.mounted
    /\ app.code = "google"
    /\ CrudRendered
    /\ ~LoginButtonsRendered
    /\ CrudMounted
    /\ inflight[1].state = "done"

\* C23, as claimed: when the response of a successful updateUser(id)
\* arrives, the displayed list keeps its length and its order, the entry
\* whose _id is id becomes the server's response and every other entry
\* stays as it is.
C23_Claim ==
    [][\A q \in Req :
          (/\ ResponseArrives(q)
           /\ inflight[q].op = "update"
           /\ inflight[q].response.status = 200) =>
              /\ Len(shown') = Len(shown)
              /\ \A i \in 1..Len(shown) :
                    shown'[i] = IF shown[i]._id = inflight[q].id
                                THEN inflight[q].response.data[1]
                                ELSE shown[i]]_vars

\* Crud is mounted and every request it sent has been answered and its
\* response has arrived.
AllArrived ==
    /\ CrudMounted
    /\ \A q \in DOMAIN inflight : inflight[q].state = "done"

\* Request q was an operation op that the server carried out.
Succeeded(q, op) ==
    /\ q \in DOMAIN inflight
    /\ inflight[q].op = op
    /\ inflight[q].response.status \in {200, 201}

\* C26, as claimed: once all responses have arrived, every user that a
\* request created and none deleted is displayed, no user that a request
\* deleted is displayed, and every stored user is displayed with the values
\* the store has for it.
C26_Claim ==
    AllArrived =>
        /\ \A q \in Req : Succeeded(q, "create") =>
              \/ inflight[q].response.data[1]._id \in IdsOf(shown)
              \/ \E p \in Req :
                    Succeeded(p, "delete") /\ inflight[p].id = inflight[q].response.data[1]._id
        /\ \A q \in Req : Succeeded(q, "delete") => inflight[q].id \notin IdsOf(shown)
        /\ \A i \in 1..Len(users) : \E j \in 1..Len(shown) : shown[j] = users[i]

====
